---- MODULE Spec2Model ----
(***************************************************************************)
(* State-machine model of the 3DSimulate frontend: the task lifecycle      *)
(* controllers (App.pollTaskStatus and the useReconstruction hook), the    *)
(* asset loader (ModelLoader) and the scene tools (Scene3D tool toggles,   *)
(* MeasurementTools, AnnotationTools).                                     *)
(*                                                                         *)
(* The components are independent React components with disjoint state,    *)
(* so each has a specification of its own (SpecApp, SpecHook, ...) over    *)
(* the shared variable tuple; the other components' variables stay at      *)
(* their initial values.                                                   *)
(*                                                                         *)
(* A nullable React state (T | null) is a set with at most one element:    *)
(* {} is null, {x} is x.                                                   *)
(***************************************************************************)
EXTENDS Integers, Sequences, FiniteSets, TLC

VARIABLES
    \* ---- App.tsx (useState, lines 13-16) and its asynchronous work
    files,          \* number of selected files (files.length)
    currentTask,    \* App.currentTask: {} or {task}
    result,         \* App.result: {} or {result descriptor}
    activeTab,      \* 'upload' | 'process' | 'view'
    starts,         \* startReconstruction calls: their closures and await points
    loops,          \* poll loops started by pollTaskStatus: closure taskId and position
    \* ---- useReconstruction (hooks/useFileUpload.ts 163-363)
    autoStart,      \* the autoStart option
    mounted,        \* whether the component using the hook is mounted
    tasks,          \* the task list, in order
    hookTask,       \* the hook's currentTask: {} or {task}
    isPolling,
    error,          \* {} or {message}
    intervals,      \* timers made by setInterval in startPolling
    requests,       \* status requests in flight, per task id
    creates,        \* create requests in flight
    restartReqs,    \* restart requests in flight, per task id
    \* ---- ModelLoader (components/3d/ModelLoader.tsx)
    modelUrl,       \* the modelUrl prop; << >> is the empty string
    model,          \* {} or {the stored model}
    loading,
    loadError,      \* ModelLoader's error state: {} or {message}
    loads,          \* the loadModel() calls made so far, in order
    isModelLoaded,  \* the parent's flag set by onLoad (SceneContent)
    \* ---- scene tools (Scene3D.tsx, MeasurementTools.tsx, AnnotationTools)
    showMeasurement,    \* Scene3D.showMeasurement
    showAnnotation,     \* Scene3D.showAnnotation
    onAddGiven,         \* whether the parent passes onMeasurementAdd
    mtActive,           \* MeasurementTools.isActive
    currentPoints,      \* MeasurementTools.currentPoints
    mtHovered,          \* MeasurementTools.hoveredPoint: {} or {point}
    mtHoveredOn,        \* the scene object MeasurementTools.hoveredPoint lies on
    emitted,            \* the Measurements handed to onMeasurementAdd, in order
    atActive,           \* AnnotationTools.isActive
    atHovered,          \* AnnotationTools.hoveredPoint: {} or {point}
    atHoveredOn,        \* the scene object AnnotationTools.hoveredPoint lies on
    annotations,        \* the Annotations handed to onAnnotationAdd (the annotations prop)
    \* ---- tool panels (unnamed/part_007 MeasurementTools, unnamed/part_005 AnnotationTools)
    pmMeasurements,     \* panel MeasurementTools.measurements, in order
    pmSelectedTool,     \* panel MeasurementTools.selectedTool
    pmActive,           \* panel MeasurementTools.isActive
    paAnnotations,      \* panel AnnotationTools.annotations, in order
    paText,             \* panel AnnotationTools.newAnnotationText; "" is the empty input
    paActive,           \* panel AnnotationTools.isActive
    idsMade,            \* number of generateId() calls made by the panels
    panelCall,          \* the last panel handler called, with its argument
    \* ---- camera (Scene3D.tsx sceneControls.camera, the three.js camera, unnamed/part_004)
    sceneCamera,        \* Scene3D sceneControls.camera; near, far and speed in tenths
    threeCamera,        \* the three.js camera of the Canvas: position and lookAt target
    resultBox,          \* result.metadata.boundingBox: {} or {box}
    cameraCall,         \* the last camera operation
    \* ---- pure functions (ModelLoader.processModel, unnamed/part_008 calculateDistance)
    pureCall,           \* the last call of a pure function, with its arguments
    pureRet,            \* {} until the call returns, then {what it returned or did to its argument}
    \* ---- file selection (useFileUpload of useFileUpload.ts, FileUpload.tsx)
    ufFiles,            \* useFileUpload.files after the queued updaters: file ids in order
    ufSeen,             \* files.length that the addFiles of the last render closed over
    ufError,            \* useFileUpload.error: {} or {message}
    fuFiles,            \* FileUpload.files as last set: file ids in order
    fuSeen,             \* the files array that the callbacks of FileUpload's last render closed over
    fuError,            \* FileUpload.error: {} or {message}
    filesMade,          \* number of file ids made so far
    \* ---- retry (unnamed/part_008)
    retryArgs,          \* the arguments of the retry call: maxAttempts and delayMs
    attempt,            \* the loop variable of retry
    retryPc,            \* where the call is: idle, call (awaiting fn), delay, returned, rejected
    fnLog,              \* the outcome of every fn call so far, in order
    lastError,          \* retry's lastError: {} while unassigned
    retryOut,           \* what the retry promise settled with: {} while pending
    sleep               \* milliseconds of the delay being awaited

appVars == <<files, currentTask, result, activeTab, starts, loops>>

hookVars == <<autoStart, mounted, tasks, hookTask, isPolling, error, intervals,
              requests, creates, restartReqs>>

loaderVars == <<modelUrl, model, loading, loadError, loads, isModelLoaded>>

toolVars == <<showMeasurement, showAnnotation, onAddGiven, mtActive, currentPoints,
              mtHovered, mtHoveredOn, emitted, atActive, atHovered, atHoveredOn,
              annotations>>

panelVars == <<pmMeasurements, pmSelectedTool, pmActive, paAnnotations, paText,
               paActive, idsMade, panelCall>>

cameraVars == <<sceneCamera, threeCamera, resultBox, cameraCall>>

pureVars == <<pureCall, pureRet>>

fileVars == <<ufFiles, ufSeen, ufError, fuFiles, fuSeen, fuError, filesMade>>

retryVars == <<retryArgs, attempt, retryPc, fnLog, lastError, retryOut, sleep>>

vars == <<appVars, hookVars, loaderVars, toolVars, panelVars, cameraVars, pureVars, fileVars, retryVars>>

\* What the actions of one component leave alone
notApp == <<hookVars, loaderVars, toolVars, panelVars, cameraVars, pureVars, fileVars, retryVars>>
notHook == <<appVars, loaderVars, toolVars, panelVars, cameraVars, pureVars, fileVars, retryVars>>
notLoader == <<appVars, hookVars, toolVars, panelVars, cameraVars, pureVars, fileVars, retryVars>>
notTools == <<appVars, hookVars, loaderVars, panelVars, cameraVars, pureVars, fileVars, retryVars>>
notPanel == <<appVars, hookVars, loaderVars, toolVars, cameraVars, pureVars, fileVars, retryVars>>
notCamera == <<appVars, hookVars, loaderVars, toolVars, panelVars, pureVars, fileVars, retryVars>>
notPure == <<appVars, hookVars, loaderVars, toolVars, panelVars, cameraVars, fileVars, retryVars>>
notFiles == <<appVars, hookVars, loaderVars, toolVars, panelVars, cameraVars, pureVars, retryVars>>
notRetry == <<appVars, hookVars, loaderVars, toolVars, panelVars, cameraVars, pureVars, fileVars>>

----------------------------------------------------------------------------
(* Bounds of the model *)

\* startReconstruction calls in one session
MaxStarts == 2
\* status requests issued by one poll loop
MaxPolls == 3
\* files the user selects
MaxFiles == 1
\* tasks created through the hook
MaxTasks == 2
\* longest side of a loaded model's bounding box
MaxBoxSize == 5
\* largest coordinate of a point given to calculateDistance
MaxCoord == 4
\* the maxFiles option of useFileUpload and FileUpload (10 by default)
maxFiles == 2
\* file ids made in one session
MaxFileIds == 4
\* largest maxAttempts given to retry (3 is its default)
MaxAttempts == 3
\* setInterval timers started through the hook
MaxIntervals == 2
\* ticks of one setInterval timer
MaxTicks == 1
\* status requests in flight for one task
MaxInFlight == 1
\* loadModel() calls of one ModelLoader
MaxLoads == 3
\* Measurements handed to onMeasurementAdd
MaxEmitted == 2
\* Annotations handed to onAnnotationAdd
MaxAnnotations == 1
\* generateId() calls made by the tool panels
MaxPanelIds == 2

----------------------------------------------------------------------------
(* The task status endpoint (types/index.ts TaskStatusResponse) *)

\* The result descriptor the backend holds for task tid.
ResultOf(tid) == [modelUrl |-> tid]

\* The bodies a status request for task tid can be answered with.
StatusResponses(tid) ==
    { [status |-> "pending",    progress |-> 0,   message |-> "queued",  result |-> {}],
      [status |-> "processing", progress |-> 10,  message |-> "step 1",  result |-> {}],
      [status |-> "processing", progress |-> 60,  message |-> "step 2",  result |-> {}],
      [status |-> "completed",  progress |-> 100, message |-> "done",    result |-> {ResultOf(tid)}],
      [status |-> "completed",  progress |-> 100, message |-> "done",    result |-> {}],
      [status |-> "failed",     progress |-> 60,  message |-> "backend failed", result |-> {}] }

----------------------------------------------------------------------------
(* App.tsx *)

\* generateId(): the client-side id of the k-th startReconstruction call.
\* Backend task ids are the positive numbers, client ids the negative ones.
generateId(k) == 0 - k

\* The task_id the upload of the k-th call returns.
UploadTaskId(k) == k

\* App.tsx 70-78: the task startReconstruction creates.
NewAppTask(k) ==
    [id |-> generateId(k), status |-> "processing", progress |-> 0,
     message |-> "uploading"]

\* App.tsx 36-41: setCurrentTask(prev => prev ? {...prev, status, progress, message} : null)
ApplyStatus(prev, r) ==
    { [t EXCEPT !.status = r.status, !.progress = r.progress, !.message = r.message]
        : t \in prev }

\* App.tsx 55-59: setCurrentTask(prev => prev ? {...prev, status: 'failed', message} : null)
ApplyPollError(prev, msg) ==
    { [t EXCEPT !.status = "failed", !.message = msg] : t \in prev }

\* App.tsx 43: status === 'completed' && result
PollCompleted(r) == r.status = "completed" /\ r.result # {}

\* App.tsx 43-52: where the loop goes after a response that was applied
PollNextPc(r) ==
    IF PollCompleted(r) THEN "stopped"
    ELSE IF r.status = "failed" THEN "stopped"
    ELSE "timer"

\* App.tsx 54-60: the catch block schedules nothing
PollErrorPc == "stopped"

\* App.tsx 20-22, 347, 480: handleFilesChange, called by the FileUpload of the upload tab
HandleFilesChange(n) ==
    /\ activeTab = "upload"
    /\ n # files
    /\ files' = n
    /\ UNCHANGED <<currentTask, result, activeTab, starts, loops>>
    /\ UNCHANGED notApp

\* App.tsx 67-85: startReconstruction up to the first await (api.uploadFiles);
\* its button is on the upload tab (347, 488-496)
StartReconstruction ==
    /\ activeTab = "upload"
    /\ Len(starts) < MaxStarts
    /\ IF files = 0
       THEN UNCHANGED appVars
       ELSE LET k == Len(starts) + 1 IN
            /\ currentTask' = {NewAppTask(k)}
            /\ activeTab' = "process"
            /\ starts' = Append(starts, [task |-> NewAppTask(k), pc |-> "upload"])
            /\ UNCHANGED <<files, result, loops>>
    /\ UNCHANGED notApp

\* App.tsx 85-98: the upload succeeded; the start request is sent
UploadOk(k) ==
    /\ k \in DOMAIN starts
    /\ starts[k].pc = "upload"
    /\ currentTask' = {[starts[k].task EXCEPT !.id = UploadTaskId(k),
                                               !.message = "uploaded"]}
    /\ starts' = [starts EXCEPT ![k].pc = "start"]
    /\ UNCHANGED <<files, result, activeTab, loops>>
    /\ UNCHANGED notApp

\* startReconstruction's catch block that records the message but leaves the status
StartFailedTaskKeepsStatus(task, msg) == [task EXCEPT !.message = msg]

\* App.tsx 107-113: the catch block of startReconstruction
StartFailedTask(task, msg) == [task EXCEPT !.status = "failed", !.message = msg]

\* App.tsx 87-89, 107-113: the upload failed
UploadFail(k) ==
    /\ k \in DOMAIN starts
    /\ starts[k].pc = "upload"
    /\ currentTask' = {StartFailedTask(starts[k].task, "upload failed")}
    /\ starts' = [starts EXCEPT ![k].pc = "done"]
    /\ UNCHANGED <<files, result, activeTab, loops>>
    /\ UNCHANGED notApp

\* App.tsx 25-28, 63: pollTaskStatus(taskId) calls poll(), which sends the first request
NewLoop(taskId) == [taskId |-> taskId, pc |-> "request", polls |-> 1]

\* App.tsx 98-105: the start request succeeded; pollTaskStatus(taskId)
StartOk(k) ==
    /\ k \in DOMAIN starts
    /\ starts[k].pc = "start"
    /\ loops' = Append(loops, NewLoop(UploadTaskId(k)))
    /\ starts' = [starts EXCEPT ![k].pc = "done"]
    /\ UNCHANGED <<files, currentTask, result, activeTab>>
    /\ UNCHANGED notApp

\* App.tsx 100-102, 107-113: the start request failed
StartFail(k) ==
    /\ k \in DOMAIN starts
    /\ starts[k].pc = "start"
    /\ currentTask' = {StartFailedTask(starts[k].task, "start failed")}
    /\ starts' = [starts EXCEPT ![k].pc = "done"]
    /\ UNCHANGED <<files, result, activeTab, loops>>
    /\ UNCHANGED notApp

\* App.tsx 28-52: a status response arrives for loop l
PollResponse(l, r) ==
    /\ l \in DOMAIN loops
    /\ loops[l].pc = "request"
    /\ currentTask' = ApplyStatus(currentTask, r)
    /\ IF PollCompleted(r)
       THEN result' = r.result /\ activeTab' = "view"
       ELSE UNCHANGED <<result, activeTab>>
    /\ loops' = [loops EXCEPT ![l].pc = PollNextPc(r)]
    /\ UNCHANGED <<files, starts>>
    /\ UNCHANGED notApp

\* App.tsx 30-32, 54-60: the status request failed (success: false)
PollError(l) ==
    /\ l \in DOMAIN loops
    /\ loops[l].pc = "request"
    /\ currentTask' = ApplyPollError(currentTask, "network error")
    /\ loops' = [loops EXCEPT ![l].pc = PollErrorPc]
    /\ UNCHANGED <<files, result, activeTab, starts>>
    /\ UNCHANGED notApp

\* App.tsx 52, 26-28: the timer set by setTimeout(poll, 2000) fires
PollTimer(l) ==
    /\ l \in DOMAIN loops
    /\ loops[l].pc = "timer"
    /\ loops[l].polls < MaxPolls
    /\ loops' = [loops EXCEPT ![l].pc = "request", ![l].polls = @ + 1]
    /\ UNCHANGED <<files, currentTask, result, activeTab, starts>>
    /\ UNCHANGED notApp

\* App.tsx 117-122: restart
Restart ==
    /\ files' = 0
    /\ currentTask' = {}
    /\ result' = {}
    /\ activeTab' = "upload"
    /\ UNCHANGED <<starts, loops>>
    /\ UNCHANGED notApp

\* Tab buttons that are never disabled
TabAlwaysEnabled(tab) == tab \in {"upload", "process", "view"}

\* App.tsx 193, 236-237, 280-281: the tab buttons (process and view can be disabled)
TabEnabled(tab) ==
    CASE tab = "upload"  -> TRUE
      [] tab = "process" -> currentTask # {}
      [] tab = "view"    -> result # {}

ClickTab(tab) ==
    /\ TabEnabled(tab)
    /\ activeTab' = tab
    /\ UNCHANGED <<files, currentTask, result, starts, loops>>
    /\ UNCHANGED notApp

AppInit ==
    /\ files = 0
    /\ currentTask = {}
    /\ result = {}
    /\ activeTab = "upload"
    /\ starts = << >>
    /\ loops = << >>

AppNext ==
    \/ \E n \in 0..MaxFiles : HandleFilesChange(n)
    \/ StartReconstruction
    \/ \E k \in DOMAIN starts : UploadOk(k)
    \/ \E k \in DOMAIN starts : UploadFail(k)
    \/ \E k \in DOMAIN starts : StartOk(k)
    \/ \E k \in DOMAIN starts : StartFail(k)
    \/ \E l \in DOMAIN loops : \E r \in StatusResponses(loops[l].taskId) : PollResponse(l, r)
    \/ \E l \in DOMAIN loops : PollError(l)
    \/ \E l \in DOMAIN loops : PollTimer(l)
    \/ Restart
    \/ \E tab \in {"upload", "process", "view"} : ClickTab(tab)


----------------------------------------------------------------------------
(* useReconstruction, hooks/useFileUpload.ts 163-363 *)

TaskIds == 1..MaxTasks

\* useFileUpload.ts 190-197: the local record createTask makes
NewHookTask(id) ==
    [id |-> id, status |-> "pending", progress |-> 0, message |-> "created",
     result |-> {}]

\* useFileUpload.ts 231-238 and 244-251: the fields a status response overwrites
MergeStatus(task, r) ==
    [task EXCEPT !.status = r.status, !.progress = r.progress,
                 !.message = r.message, !.result = r.result]

\* useFileUpload.ts 229-240: setTasks(prev => prev.map(task => task.id === taskId ? ... : task))
UpdateTasks(prev, taskId, r) ==
    [i \in DOMAIN prev |-> IF prev[i].id = taskId THEN MergeStatus(prev[i], r) ELSE prev[i]]

\* useFileUpload.ts 242-253: setCurrentTask(prev => prev?.id === taskId ? ... : prev)
UpdateCurrent(prev, taskId, r) ==
    { IF t.id = taskId THEN MergeStatus(t, r) ELSE t : t \in prev }

\* useFileUpload.ts 256: the statuses on which the hook reports polling as over
IsTerminal(status) == status = "completed" \/ status = "failed"

\* useFileUpload.ts 255-258: the only thing done on a terminal status is
\* setIsPolling(false); the timer made at line 270 is not touched
IntervalsAfterResponse(ivs, taskId, r) == ivs

\* useFileUpload.ts 277-279: stopPolling is setIsPolling(false) alone
IntervalsAfterStop(ivs) == ivs

\* useFileUpload.ts 332-336: the task restartTask writes
RestartedTask(task) ==
    [task EXCEPT !.status = "pending", !.progress = 0, !.message = "restarted"]

\* useFileUpload.ts 215-274: startPolling(taskId). The first poll() is sent at once
\* (267) and a timer is made (270); held says whether the caller keeps the
\* returned cleanup function (createTask and restartTask drop it).
StartPollingEffects(taskId, held) ==
    /\ isPolling' = (IF mounted THEN TRUE ELSE isPolling)
    /\ error' = (IF mounted THEN {} ELSE error)
    /\ requests' = [requests EXCEPT ![taskId] = @ + 1]
    /\ intervals' = Append(intervals,
                           [taskId |-> taskId, active |-> TRUE, ticks |-> 0, held |-> held])

CanStartPolling(taskId) ==
    /\ Len(intervals) < MaxIntervals
    /\ requests[taskId] < MaxInFlight

\* useFileUpload.ts 172-180: createTask sends the create request
CreateTask ==
    /\ mounted
    /\ Len(tasks) + creates < MaxTasks
    /\ creates' = creates + 1
    /\ UNCHANGED <<autoStart, mounted, tasks, hookTask, isPolling, error, intervals,
                   requests, restartReqs>>
    /\ UNCHANGED notHook

\* useFileUpload.ts 186-206: the create request succeeded
CreateTaskOk ==
    /\ creates > 0
    /\ LET id == Len(tasks) + 1 IN
       /\ autoStart => CanStartPolling(id)
       /\ creates' = creates - 1
       /\ tasks' = (IF mounted THEN Append(tasks, NewHookTask(id)) ELSE tasks)
       /\ hookTask' = (IF mounted THEN {NewHookTask(id)} ELSE hookTask)
       /\ IF autoStart
          THEN StartPollingEffects(id, FALSE)
          ELSE UNCHANGED <<isPolling, error, requests, intervals>>
    /\ UNCHANGED <<autoStart, mounted, restartReqs>>
    /\ UNCHANGED notHook

\* useFileUpload.ts 182-184, 208-211: the create request failed
CreateTaskFail ==
    /\ creates > 0
    /\ creates' = creates - 1
    /\ error' = (IF mounted THEN {"create failed"} ELSE error)
    /\ UNCHANGED <<autoStart, mounted, tasks, hookTask, isPolling, intervals,
                   requests, restartReqs>>
    /\ UNCHANGED notHook

\* useFileUpload.ts 215-274: the consumer calls startPolling(taskId)
StartPolling(taskId) ==
    /\ mounted
    /\ CanStartPolling(taskId)
    /\ StartPollingEffects(taskId, TRUE)
    /\ UNCHANGED <<autoStart, mounted, tasks, hookTask, creates, restartReqs>>
    /\ UNCHANGED notHook

\* useFileUpload.ts 273: the consumer calls the cleanup function startPolling returned
Cleanup(i) ==
    /\ i \in DOMAIN intervals
    /\ intervals[i].held
    /\ intervals[i].active
    /\ intervals' = [intervals EXCEPT ![i].active = FALSE]
    /\ UNCHANGED <<autoStart, mounted, tasks, hookTask, isPolling, error, requests,
                   creates, restartReqs>>
    /\ UNCHANGED notHook

\* useFileUpload.ts 270, 219-221: a timer fires and poll() sends a status request
Tick(i) ==
    /\ i \in DOMAIN intervals
    /\ intervals[i].active
    /\ intervals[i].ticks < MaxTicks
    /\ requests[intervals[i].taskId] < MaxInFlight
    /\ intervals' = [intervals EXCEPT ![i].ticks = @ + 1]
    /\ requests' = [requests EXCEPT ![intervals[i].taskId] = @ + 1]
    /\ UNCHANGED <<autoStart, mounted, tasks, hookTask, isPolling, error, creates,
                   restartReqs>>
    /\ UNCHANGED notHook

\* useFileUpload.ts 221-258: a status response arrives for taskId
HookPollResponse(taskId, r) ==
    /\ requests[taskId] > 0
    /\ requests' = [requests EXCEPT ![taskId] = @ - 1]
    /\ tasks' = (IF mounted THEN UpdateTasks(tasks, taskId, r) ELSE tasks)
    /\ hookTask' = (IF mounted THEN UpdateCurrent(hookTask, taskId, r) ELSE hookTask)
    /\ isPolling' = (IF mounted /\ IsTerminal(r.status) THEN FALSE ELSE isPolling)
    /\ intervals' = IntervalsAfterResponse(intervals, taskId, r)
    /\ UNCHANGED <<autoStart, mounted, error, creates, restartReqs>>
    /\ UNCHANGED notHook

\* useFileUpload.ts 223-225, 260-263: the status request failed
HookPollError(taskId) ==
    /\ requests[taskId] > 0
    /\ requests' = [requests EXCEPT ![taskId] = @ - 1]
    /\ error' = (IF mounted THEN {"network error"} ELSE error)
    /\ isPolling' = (IF mounted THEN FALSE ELSE isPolling)
    /\ UNCHANGED <<autoStart, mounted, tasks, hookTask, intervals, creates, restartReqs>>
    /\ UNCHANGED notHook

\* useFileUpload.ts 277-279: stopPolling
StopPolling ==
    /\ mounted
    /\ isPolling' = FALSE
    /\ intervals' = IntervalsAfterStop(intervals)
    /\ UNCHANGED <<autoStart, mounted, tasks, hookTask, error, requests, creates,
                   restartReqs>>
    /\ UNCHANGED notHook

\* useFileUpload.ts 321-325: restartTask sends the restart request
RestartTask(taskId) ==
    /\ mounted
    /\ restartReqs[taskId] = 0
    /\ restartReqs' = [restartReqs EXCEPT ![taskId] = 1]
    /\ UNCHANGED <<autoStart, mounted, tasks, hookTask, isPolling, error, intervals,
                   requests, creates>>
    /\ UNCHANGED notHook

\* useFileUpload.ts 331-339: the restart request succeeded
RestartOk(taskId) ==
    /\ restartReqs[taskId] > 0
    /\ CanStartPolling(taskId)
    /\ restartReqs' = [restartReqs EXCEPT ![taskId] = 0]
    /\ tasks' = (IF mounted
                 THEN [i \in DOMAIN tasks |->
                        IF tasks[i].id = taskId THEN RestartedTask(tasks[i]) ELSE tasks[i]]
                 ELSE tasks)
    /\ StartPollingEffects(taskId, FALSE)
    /\ UNCHANGED <<autoStart, mounted, hookTask, creates>>
    /\ UNCHANGED notHook

\* useFileUpload.ts 327-329, 341-343: the restart request failed
RestartFail(taskId) ==
    /\ restartReqs[taskId] > 0
    /\ restartReqs' = [restartReqs EXCEPT ![taskId] = 0]
    /\ error' = (IF mounted THEN {"restart failed"} ELSE error)
    /\ UNCHANGED <<autoStart, mounted, tasks, hookTask, isPolling, intervals, requests,
                   creates>>
    /\ UNCHANGED notHook

\* The component using the hook unmounts. The hook registers no effect cleanup
\* (its only useEffect, 347-349, returns nothing), so timers and requests live on;
\* React drops state updates of an unmounted component.
Unmount ==
    /\ mounted
    /\ mounted' = FALSE
    /\ UNCHANGED <<autoStart, tasks, hookTask, isPolling, error, intervals, requests,
                   creates, restartReqs>>
    /\ UNCHANGED notHook

HookInit ==
    /\ autoStart \in BOOLEAN
    /\ mounted = TRUE
    /\ tasks = << >>
    /\ hookTask = {}
    /\ isPolling = FALSE
    /\ error = {}
    /\ intervals = << >>
    /\ requests = [id \in TaskIds |-> 0]
    /\ creates = 0
    /\ restartReqs = [id \in TaskIds |-> 0]

HookNext ==
    \/ CreateTask
    \/ CreateTaskOk
    \/ CreateTaskFail
    \/ \E id \in TaskIds : StartPolling(id)
    \/ \E i \in DOMAIN intervals : Cleanup(i)
    \/ \E i \in DOMAIN intervals : Tick(i)
    \/ \E id \in TaskIds : \E r \in StatusResponses(id) : HookPollResponse(id, r)
    \/ \E id \in TaskIds : HookPollError(id)
    \/ StopPolling
    \/ \E id \in TaskIds : RestartTask(id)
    \/ \E id \in TaskIds : RestartOk(id)
    \/ \E id \in TaskIds : RestartFail(id)
    \/ Unmount



----------------------------------------------------------------------------
(* ModelLoader, components/3d/ModelLoader.tsx *)

\* A URL is the tuple of its characters.
Urls ==
    { <<"a", ".", "g", "l", "b">>,
      <<"b", ".", "P", "L", "Y">>,
      <<"c", ".", "x", "y", "z">>,
      <<"d">> }

\* String.prototype.toLowerCase on the characters the URLs use
LowerChar(c) ==
    CASE c = "P" -> "p"
      [] c = "L" -> "l"
      [] c = "Y" -> "y"
      [] OTHER   -> c

toLowerCase(str) == [i \in DOMAIN str |-> LowerChar(str[i])]

\* ModelLoader.tsx 31: modelUrl.split('.').pop(): what follows the last '.', the
\* whole string when it has none
LastSegment(str) ==
    LET dots == { i \in DOMAIN str : str[i] = "." }
        from == IF dots = {} THEN 1
                ELSE (CHOOSE i \in dots : \A j \in dots : j <= i) + 1
    IN  SubSeq(str, from, Len(str))

\* ModelLoader.tsx 31: modelUrl.split('.').pop()?.toLowerCase()
FileExtension(url) == toLowerCase(LastSegment(url))

\* ModelLoader.tsx 33-77: the extensions the switch has a loader for
SupportedExtensions ==
    { <<"g", "l", "t", "f">>, <<"g", "l", "b">>, <<"o", "b", "j">>, <<"p", "l", "y">> }

\* A switch whose default branch hands the URL to a loader instead of throwing
DefaultBranchLoads(url) == TRUE

IsSupported(url) == FileExtension(url) \in SupportedExtensions

\* ModelLoader.tsx 79-81: the model stored after processModel ran on what
\* the loader decoded from url
LoadedModel(url) == [url |-> url, processed |-> TRUE]

\* ModelLoader.tsx 79-83: what loadModel does when load i resolves. No token
\* says whether load i is still the latest one: the result is always applied.
ApplyLoaded(i) == TRUE

\* A render that skips the error test of line 139
RenderedIgnoringError == IF loading \/ model = {} THEN {} ELSE model

\* ModelLoader.tsx 134-143: what the component renders
Rendered ==
    IF loading THEN {}
    ELSE IF loadError # {} \/ model = {} THEN {}
    ELSE model

\* ModelLoader.tsx 20-93: the effect runs for a modelUrl; loadModel() runs up to
\* its first await (a loader's request) or to its catch block (no loader)
LoadEffect(url) ==
    /\ Len(loads) < MaxLoads
    /\ modelUrl' = url
    /\ IF url = << >>
       THEN UNCHANGED <<model, loading, loadError, loads, isModelLoaded>>
       ELSE IF IsSupported(url)
       THEN /\ loading' = TRUE
            /\ loadError' = {}
            /\ loads' = Append(loads, [url |-> url, pc |-> "pending", requested |-> TRUE])
            /\ UNCHANGED <<model, isModelLoaded>>
       ELSE /\ loading' = FALSE
            /\ loadError' = {"unsupported format"}
            /\ loads' = Append(loads, [url |-> url, pc |-> "failed", requested |-> FALSE])
            /\ UNCHANGED <<model, isModelLoaded>>
    /\ UNCHANGED notLoader

\* ModelLoader.tsx 44-83: the loader of load i resolved
LoadOk(i) ==
    /\ i \in DOMAIN loads
    /\ loads[i].pc = "pending"
    /\ loads' = [loads EXCEPT ![i].pc = "loaded"]
    /\ IF ApplyLoaded(i)
       THEN /\ model' = {LoadedModel(loads[i].url)}
            /\ loading' = FALSE
            /\ isModelLoaded' = TRUE
       ELSE UNCHANGED <<model, loading, isModelLoaded>>
    /\ UNCHANGED <<modelUrl, loadError>>
    /\ UNCHANGED notLoader

\* ModelLoader.tsx 85-90: the loader of load i rejected
LoadFail(i) ==
    /\ i \in DOMAIN loads
    /\ loads[i].pc = "pending"
    /\ loads' = [loads EXCEPT ![i].pc = "failed"]
    /\ IF ApplyLoaded(i)
       THEN /\ loadError' = {"load failed"}
            /\ loading' = FALSE
       ELSE UNCHANGED <<loadError, loading>>
    /\ UNCHANGED <<modelUrl, model, isModelLoaded>>
    /\ UNCHANGED notLoader

LoaderInit ==
    /\ modelUrl = << >>
    /\ model = {}
    /\ loading = TRUE
    /\ loadError = {}
    /\ loads = << >>
    /\ isModelLoaded = FALSE

LoaderNext ==
    \/ \E url \in Urls \cup {<< >>} : LoadEffect(url)
    \/ \E i \in DOMAIN loads : LoadOk(i)
    \/ \E i \in DOMAIN loads : LoadFail(i)

----------------------------------------------------------------------------
(* Scene tools: Scene3D.tsx tool buttons, MeasurementTools.tsx and the 3D     *)
(* AnnotationTools (unnamed/part_005 251-330)                                 *)

\* The points a raycast can hit
Points == { <<0, 0, 0>>, <<3, 4, 0>> }

\* Math.sqrt on the squares the points produce
Sqrt(n) == CHOOSE r \in 0..n : r * r <= n /\ (r + 1) * (r + 1) > n

\* THREE.Vector3.distanceTo, MeasurementTools.tsx 34
distanceTo(a, b) ==
    Sqrt((a[1] - b[1]) * (a[1] - b[1]) + (a[2] - b[2]) * (a[2] - b[2])
         + (a[3] - b[3]) * (a[3] - b[3]))

\* MeasurementTools.tsx 34-42: the Measurement built from the current points
NewMeasurement(points) ==
    [type |-> "distance", points |-> points,
     value |-> distanceTo(points[1], points[2]), unit |-> "m"]

\* MeasurementTools.tsx 26: the branch that adds a point
AddsPoint(points) == Len(points) < 2

\* unnamed/part_005 279-285: the Annotation built from the hovered point
NewAnnotation(point, count) ==
    [position |-> point, text |-> count + 1, visible |-> TRUE]

\* Scene3D.tsx 347: the measurement tool button
ToggleMeasurement ==
    /\ showMeasurement' = ~showMeasurement
    /\ UNCHANGED <<showAnnotation, onAddGiven, mtActive, currentPoints, mtHovered,
                   emitted, atActive, atHovered, annotations>>
    /\ UNCHANGED <<mtHoveredOn, atHoveredOn>>
    /\ UNCHANGED notTools

\* Scene3D.tsx 356: the annotation tool button
ToggleAnnotation ==
    /\ showAnnotation' = ~showAnnotation
    /\ UNCHANGED <<showMeasurement, onAddGiven, mtActive, currentPoints, mtHovered,
                   emitted, atActive, atHovered, annotations>>
    /\ UNCHANGED <<mtHoveredOn, atHoveredOn>>
    /\ UNCHANGED notTools

\* The points a ray from the camera can return
PickResults == {{}} \cup { {p} : p \in Points }

\* The meshes among the scene's children: the loaded asset (ModelLoader.tsx 143),
\* the markers of the current points (MeasurementTools.tsx 81-86), the hover
\* indicators (MeasurementTools.tsx 89-94, unnamed/part_005 310-315) and the
\* annotation markers (unnamed/part_005 318-327)
SceneMeshes ==
    {"asset"}
    \cup (IF Len(currentPoints) > 0 THEN {"pointMarker"} ELSE {})
    \cup (IF mtHovered # {} \/ (atActive /\ atHovered # {}) THEN {"hoverIndicator"} ELSE {})
    \cup (IF Len(annotations) > 0 THEN {"annotationMarker"} ELSE {})

\* MeasurementTools.tsx 57-63, unnamed/part_005 298-304:
\* raycaster.intersectObjects(children, true) is given every child, recursively;
\* its first entry is a point on any of the meshes, or there is none
Intersections ==
    { hit \in [point : PickResults, on : SceneMeshes \cup {"none"}] :
          (hit.point = {}) <=> (hit.on = "none") }

\* MeasurementTools.tsx 18: setIsActive
MtSetIsActive(b) ==
    /\ b # mtActive
    /\ mtActive' = b
    /\ UNCHANGED <<showMeasurement, showAnnotation, onAddGiven, currentPoints,
                   mtHovered, emitted, atActive, atHovered, annotations>>
    /\ UNCHANGED <<mtHoveredOn, atHoveredOn>>
    /\ UNCHANGED notTools

\* MeasurementTools.tsx 50-64: a frame; the raycast sets hoveredPoint
MtFrame(hit) ==
    /\ mtActive
    /\ mtHovered' = hit.point
    /\ mtHoveredOn' = hit.on
    /\ UNCHANGED atHoveredOn
    /\ UNCHANGED <<showMeasurement, showAnnotation, onAddGiven, mtActive,
                   currentPoints, emitted, atActive, atHovered, annotations>>
    /\ UNCHANGED notTools

\* MeasurementTools.tsx 23-47: handleClick
MtHandleClick ==
    /\ Len(emitted) < MaxEmitted
    /\ IF ~mtActive
       THEN UNCHANGED <<currentPoints, emitted>>
       ELSE IF AddsPoint(currentPoints)
       THEN /\ currentPoints' = (IF mtHovered # {}
                                 THEN currentPoints \o <<CHOOSE p \in mtHovered : TRUE>>
                                 ELSE currentPoints)
            /\ UNCHANGED emitted
       ELSE /\ emitted' = (IF onAddGiven /\ Len(currentPoints) >= 2
                           THEN Append(emitted, NewMeasurement(currentPoints))
                           ELSE emitted)
            /\ currentPoints' = << >>
    /\ UNCHANGED <<showMeasurement, showAnnotation, onAddGiven, mtActive, mtHovered,
                   atActive, atHovered, annotations>>
    /\ UNCHANGED <<mtHoveredOn, atHoveredOn>>
    /\ UNCHANGED notTools

\* unnamed/part_005 270: setIsActive of the 3D AnnotationTools
AtSetIsActive(b) ==
    /\ b # atActive
    /\ atActive' = b
    /\ UNCHANGED <<showMeasurement, showAnnotation, onAddGiven, mtActive,
                   currentPoints, mtHovered, emitted, atHovered, annotations>>
    /\ UNCHANGED <<mtHoveredOn, atHoveredOn>>
    /\ UNCHANGED notTools

\* unnamed/part_005 291-305: a frame; the raycast sets hoveredPoint
AtFrame(hit) ==
    /\ atActive
    /\ atHovered' = hit.point
    /\ atHoveredOn' = hit.on
    /\ UNCHANGED mtHoveredOn
    /\ UNCHANGED <<showMeasurement, showAnnotation, onAddGiven, mtActive,
                   currentPoints, mtHovered, emitted, atActive, annotations>>
    /\ UNCHANGED notTools

\* unnamed/part_005 275-288: handleClick
AtHandleClick ==
    /\ Len(annotations) < MaxAnnotations
    /\ IF ~atActive \/ atHovered = {}
       THEN UNCHANGED annotations
       ELSE annotations' = Append(annotations,
                NewAnnotation(CHOOSE p \in atHovered : TRUE, Len(annotations)))
    /\ UNCHANGED <<showMeasurement, showAnnotation, onAddGiven, mtActive,
                   currentPoints, mtHovered, emitted, atActive, atHovered>>
    /\ UNCHANGED <<mtHoveredOn, atHoveredOn>>
    /\ UNCHANGED notTools

ToolsInit ==
    /\ showMeasurement = FALSE
    /\ showAnnotation = FALSE
    /\ onAddGiven \in BOOLEAN
    /\ mtActive = FALSE
    /\ currentPoints = << >>
    /\ mtHovered = {}
    /\ mtHoveredOn = "none"
    /\ emitted = << >>
    /\ atActive = FALSE
    /\ atHovered = {}
    /\ atHoveredOn = "none"
    /\ annotations = << >>

ToolsNext ==
    \/ ToggleMeasurement
    \/ ToggleAnnotation
    \/ \E b \in BOOLEAN : MtSetIsActive(b)
    \/ \E hit \in Intersections : MtFrame(hit)
    \/ MtHandleClick
    \/ \E b \in BOOLEAN : AtSetIsActive(b)
    \/ \E hit \in Intersections : AtFrame(hit)
    \/ AtHandleClick

----------------------------------------------------------------------------
(* Tool panels mounted by Scene3D (Scene3D.tsx 395-410): MeasurementTools    *)
(* (unnamed/part_007) and AnnotationTools (unnamed/part_005 18-250)          *)

\* unnamed/part_007 84-88: the types the panel's select offers
MeasurementTypes == {"distance", "angle", "area", "volume"}

\* The ids generateId() returns to the panels, and so the ids their handlers
\* can be called with
PanelIds == { generateId(k) : k \in 1..MaxPanelIds }

\* The texts typed into the annotation input; "" is the empty input
TypedTexts == {"", "note"}

\* unnamed/part_007 18-29: addMeasurement(type)
addMeasurement(list, id, type) ==
    Append(list, [id |-> id, type |-> type, points |-> << >>, value |-> 0,
                  visible |-> TRUE])

\* unnamed/part_007 31-33: deleteMeasurement(id)
deleteMeasurement(list, id) == SelectSeq(list, LAMBDA m : m.id # id)

\* unnamed/part_007 35-39: toggleMeasurementVisibility(id)
toggleMeasurementVisibility(list, id) ==
    [i \in DOMAIN list |->
        IF list[i].id = id THEN [list[i] EXCEPT !.visible = ~list[i].visible]
        ELSE list[i]]

\* unnamed/part_005 29: newAnnotationText || `${getTypeName(type)} ${annotations.length + 1}`
AnnotationText(typed, count) ==
    IF typed # "" THEN [typed |-> typed, n |-> 0] ELSE [typed |-> "", n |-> count + 1]

\* unnamed/part_005 25-37: addAnnotation(type); the position is the fixed [0, 0, 0]
addAnnotation(list, id, typed) ==
    Append(list, [id |-> id, position |-> <<0, 0, 0>>,
                  text |-> AnnotationText(typed, Len(list)), visible |-> TRUE])

\* deleteAnnotation with the filter's test inverted (a.id === id)
deleteAnnotationInverted(list, id) == SelectSeq(list, LAMBDA a : a.id = id)

\* unnamed/part_005 39-41: deleteAnnotation(id)
deleteAnnotation(list, id) == SelectSeq(list, LAMBDA a : a.id # id)

\* toggleAnnotationVisibility that writes visible: false instead of !a.visible
hideAnnotation(list, id) ==
    [i \in DOMAIN list |->
        IF list[i].id = id THEN [list[i] EXCEPT !.visible = FALSE] ELSE list[i]]

\* unnamed/part_005 43-47: toggleAnnotationVisibility(id)
toggleAnnotationVisibility(list, id) ==
    [i \in DOMAIN list |->
        IF list[i].id = id THEN [list[i] EXCEPT !.visible = ~list[i].visible]
        ELSE list[i]]

\* unnamed/part_007 80: the type select
PmSelectTool(type) ==
    /\ type # pmSelectedTool
    /\ pmSelectedTool' = type
    /\ panelCall' = [op |-> "setSelectedTool", id |-> 0]
    /\ UNCHANGED <<pmMeasurements, pmActive, paAnnotations, paText, paActive, idsMade>>
    /\ UNCHANGED notPanel

\* unnamed/part_007 95-109: the start/stop button; starting calls addMeasurement
PmToggleActive ==
    /\ pmActive \/ idsMade < MaxPanelIds
    /\ pmActive' = ~pmActive
    /\ IF ~pmActive
       THEN /\ pmMeasurements' = addMeasurement(pmMeasurements, generateId(idsMade + 1),
                                                pmSelectedTool)
            /\ idsMade' = idsMade + 1
       ELSE UNCHANGED <<pmMeasurements, idsMade>>
    /\ panelCall' = [op |-> "toggleMeasuring", id |-> 0]
    /\ UNCHANGED <<pmSelectedTool, paAnnotations, paText, paActive>>
    /\ UNCHANGED notPanel

\* unnamed/part_007 31-33, 178: deleteMeasurement(id)
PmDelete(id) ==
    /\ pmMeasurements' = deleteMeasurement(pmMeasurements, id)
    /\ panelCall' = [op |-> "deleteMeasurement", id |-> id]
    /\ UNCHANGED <<pmSelectedTool, pmActive, paAnnotations, paText, paActive, idsMade>>
    /\ UNCHANGED notPanel

\* unnamed/part_007 35-39, 165: toggleMeasurementVisibility(id)
PmToggleVisibility(id) ==
    /\ pmMeasurements' = toggleMeasurementVisibility(pmMeasurements, id)
    /\ panelCall' = [op |-> "toggleMeasurementVisibility", id |-> id]
    /\ UNCHANGED <<pmSelectedTool, pmActive, paAnnotations, paText, paActive, idsMade>>
    /\ UNCHANGED notPanel

\* unnamed/part_007 41-43, 115: clearAllMeasurements, offered while the list is not empty
PmClearAll ==
    /\ Len(pmMeasurements) > 0
    /\ pmMeasurements' = << >>
    /\ panelCall' = [op |-> "clearAllMeasurements", id |-> 0]
    /\ UNCHANGED <<pmSelectedTool, pmActive, paAnnotations, paText, paActive, idsMade>>
    /\ UNCHANGED notPanel

\* unnamed/part_005 125-131: the text input
PaSetText(typed) ==
    /\ typed # paText
    /\ paText' = typed
    /\ panelCall' = [op |-> "setNewAnnotationText", id |-> 0]
    /\ UNCHANGED <<pmMeasurements, pmSelectedTool, pmActive, paAnnotations, paActive,
                   idsMade>>
    /\ UNCHANGED notPanel

\* unnamed/part_005 136-150: the start/stop button; starting calls addAnnotation
PaToggleActive ==
    /\ paActive \/ idsMade < MaxPanelIds
    /\ paActive' = ~paActive
    /\ IF ~paActive
       THEN /\ paAnnotations' = addAnnotation(paAnnotations, generateId(idsMade + 1), paText)
            /\ paText' = ""
            /\ idsMade' = idsMade + 1
       ELSE UNCHANGED <<paAnnotations, paText, idsMade>>
    /\ panelCall' = [op |-> "toggleAnnotating", id |-> 0]
    /\ UNCHANGED <<pmMeasurements, pmSelectedTool, pmActive>>
    /\ UNCHANGED notPanel

\* unnamed/part_005 39-41, 218: deleteAnnotation(id)
PaDelete(id) ==
    /\ paAnnotations' = deleteAnnotation(paAnnotations, id)
    /\ panelCall' = [op |-> "deleteAnnotation", id |-> id]
    /\ UNCHANGED <<pmMeasurements, pmSelectedTool, pmActive, paText, paActive, idsMade>>
    /\ UNCHANGED notPanel

\* unnamed/part_005 43-47, 205: toggleAnnotationVisibility(id)
PaToggleVisibility(id) ==
    /\ paAnnotations' = toggleAnnotationVisibility(paAnnotations, id)
    /\ panelCall' = [op |-> "toggleAnnotationVisibility", id |-> id]
    /\ UNCHANGED <<pmMeasurements, pmSelectedTool, pmActive, paText, paActive, idsMade>>
    /\ UNCHANGED notPanel

\* unnamed/part_005 55-57, 156: clearAllAnnotations, offered while the list is not empty
PaClearAll ==
    /\ Len(paAnnotations) > 0
    /\ paAnnotations' = << >>
    /\ panelCall' = [op |-> "clearAllAnnotations", id |-> 0]
    /\ UNCHANGED <<pmMeasurements, pmSelectedTool, pmActive, paText, paActive, idsMade>>
    /\ UNCHANGED notPanel

\* unnamed/part_007 14-16 and unnamed/part_005 19-23: the panels' initial state
PanelInit ==
    /\ pmMeasurements = << >>
    /\ pmSelectedTool = "distance"
    /\ pmActive = FALSE
    /\ paAnnotations = << >>
    /\ paText = ""
    /\ paActive = FALSE
    /\ idsMade = 0
    /\ panelCall = [op |-> "none", id |-> 0]

PanelNext ==
    \/ \E type \in MeasurementTypes : PmSelectTool(type)
    \/ PmToggleActive
    \/ \E id \in PanelIds : PmDelete(id)
    \/ \E id \in PanelIds : PmToggleVisibility(id)
    \/ PmClearAll
    \/ \E typed \in TypedTexts : PaSetText(typed)
    \/ PaToggleActive
    \/ \E id \in PanelIds : PaDelete(id)
    \/ \E id \in PanelIds : PaToggleVisibility(id)
    \/ PaClearAll

----------------------------------------------------------------------------
(* Camera: Scene3D.tsx sceneControls.camera, SceneContent's auto-fit effect  *)
(* and the settings panel (unnamed/part_004)                                 *)

\* Scene3D.tsx 29-79
CAMERA_PRESETS ==
    { [id |-> "front",     position |-> <<0, 0, 5>>,  target |-> <<0, 0, 0>>, fov |-> 75],
      [id |-> "back",      position |-> <<0, 0, -5>>, target |-> <<0, 0, 0>>, fov |-> 75],
      [id |-> "left",      position |-> <<-5, 0, 0>>, target |-> <<0, 0, 0>>, fov |-> 75],
      [id |-> "right",     position |-> <<5, 0, 0>>,  target |-> <<0, 0, 0>>, fov |-> 75],
      [id |-> "top",       position |-> <<0, 5, 0>>,  target |-> <<0, 0, 0>>, fov |-> 75],
      [id |-> "bottom",    position |-> <<0, -5, 0>>, target |-> <<0, 0, 0>>, fov |-> 75],
      [id |-> "isometric", position |-> <<3, 3, 3>>,  target |-> <<0, 0, 0>>, fov |-> 75] }

\* Scene3D.tsx 172-179: near 0.1, far 1000 and speed 1.0, in tenths
InitialCamera ==
    [position |-> <<5, 5, 5>>, rotation |-> <<0, 0, 0>>, fov |-> 75,
     near |-> 1, far |-> 10000, speed |-> 10]

\* Scene3D.tsx 200-209: resetCamera
resetCamera(cam) == [cam EXCEPT !.position = <<5, 5, 5>>, !.rotation = <<0, 0, 0>>]

\* Scene3D.tsx 212-221: applyCameraPreset(preset)
applyCameraPreset(cam, preset) ==
    [cam EXCEPT !.position = preset.position, !.fov = preset.fov]

\* updateCamera that builds the camera from the updates alone; a field that is
\* missing (undefined) is 0
updateCameraWithoutSpread(cam, updates) ==
    [k \in DOMAIN cam |-> IF k \in DOMAIN updates THEN updates[k] ELSE 0]

\* unnamed/part_004 265-269: updateCamera(updates) is { ...controls.camera, ...updates }
updateCamera(cam, updates) ==
    [k \in DOMAIN cam |-> IF k \in DOMAIN updates THEN updates[k] ELSE cam[k]]

\* unnamed/part_004 382-400: what the fov slider (10..120) and the speed slider
\* (0.1..2, in tenths) send
CameraUpdates ==
    { [fov |-> f] : f \in {10, 75, 120} } \cup { [speed |-> v] : v \in {1, 10, 20} }

\* The bounding boxes a result can carry
Boxes ==
    { [min |-> <<-1, -1, -1>>, max |-> <<1, 1, 1>>],
      [min |-> <<0, 0, 0>>,    max |-> <<2, 4, 6>>],
      [min |-> <<1, 1, 1>>,    max |-> <<1, 1, 1>>] }

\* Math.max of three numbers
Max3(a, b, c) == IF a >= b /\ a >= c THEN a ELSE IF b >= c THEN b ELSE c

\* Scene3D.tsx 90-94: the centre of the box (the boxes have even sums)
BoxCenter(box) ==
    << (box.min[1] + box.max[1]) \div 2, (box.min[2] + box.max[2]) \div 2,
       (box.min[3] + box.max[3]) \div 2 >>

\* Scene3D.tsx 95-100: Math.max(size.x, size.y, size.z)
BoxMaxDim(box) ==
    Max3(box.max[1] - box.min[1], box.max[2] - box.min[2], box.max[3] - box.min[3])

\* Scene3D.tsx 101: distance = maxDim * 2
FitDistance(box) == BoxMaxDim(box) * 2

\* Scene3D.tsx 103-107: camera.position.set(center + distance on every axis);
\* camera.lookAt(center)
FitCamera(box) ==
    LET center == BoxCenter(box)
        distance == FitDistance(box)
    IN  [position |-> << center[1] + distance, center[2] + distance, center[3] + distance >>,
         target |-> center]

\* Scene3D.tsx 200-209, 308: the reset button
ResetCamera ==
    /\ sceneCamera' = resetCamera(sceneCamera)
    /\ cameraCall' = "resetCamera"
    /\ UNCHANGED <<threeCamera, resultBox>>
    /\ UNCHANGED notCamera

\* Scene3D.tsx 212-221, 372: a preset button
ApplyCameraPreset(preset) ==
    /\ sceneCamera' = applyCameraPreset(sceneCamera, preset)
    /\ cameraCall' = "applyCameraPreset"
    /\ UNCHANGED <<threeCamera, resultBox>>
    /\ UNCHANGED notCamera

\* unnamed/part_004 249-251, 265-269 with Scene3D.tsx 386-388: a slider of the
\* settings panel; onChange is setSceneControls
UpdateCamera(updates) ==
    /\ sceneCamera' = updateCamera(sceneCamera, updates)
    /\ cameraCall' = "updateCamera"
    /\ UNCHANGED <<threeCamera, resultBox>>
    /\ UNCHANGED notCamera

\* Scene3D.tsx 87-109: the result prop changes and the auto-fit effect runs
SetResult(box) ==
    /\ box # resultBox
    /\ resultBox' = box
    /\ threeCamera' = (IF box # {} THEN FitCamera(CHOOSE b \in box : TRUE) ELSE threeCamera)
    /\ cameraCall' = "fitToBounds"
    /\ UNCHANGED sceneCamera
    /\ UNCHANGED notCamera

\* Scene3D.tsx 171-179, 275-280: the initial controls and the Canvas camera made from them
CameraInit ==
    /\ sceneCamera = InitialCamera
    /\ threeCamera = [position |-> InitialCamera.position, target |-> <<0, 0, 0>>]
    /\ resultBox = {}
    /\ cameraCall = "none"

CameraNext ==
    \/ ResetCamera
    \/ \E preset \in CAMERA_PRESETS : ApplyCameraPreset(preset)
    \/ \E updates \in CameraUpdates : UpdateCamera(updates)
    \/ \E box \in {{}} \cup { {b} : b \in Boxes } : SetResult(box)

----------------------------------------------------------------------------
(* Pure functions: ModelLoader.processModel and calculateDistance of         *)
(* unnamed/part_008                                                          *)

\* Bounding boxes of freshly loaded models: every side is longer than 0
ModelBoxes ==
    { [min |-> mn, max |-> << mn[1] + sz[1], mn[2] + sz[2], mn[3] + sz[3] >>] :
        mn \in {-2, -1, 0} \X {-2, -1, 0} \X {-2, -1, 0},
        sz \in (1..MaxBoxSize) \X (1..MaxBoxSize) \X (1..MaxBoxSize) }

\* ModelLoader.tsx 97-109: processModel on a model that the loader returned
\* (position 0, scale 1, so Box3.setFromObject gives the model's own box).
\* position2 is twice model.position (the centre can be a half), the scale is
\* the fraction scaleNum / scaleDen.
processModel(box) ==
    LET center2 == << box.min[1] + box.max[1], box.min[2] + box.max[2],
                      box.min[3] + box.max[3] >>
        maxSize == Max3(box.max[1] - box.min[1], box.max[2] - box.min[2],
                        box.max[3] - box.min[3])
    IN  [position2 |-> << 0 - center2[1], 0 - center2[2], 0 - center2[3] >>,
         scaleNum |-> 5,
         scaleDen |-> maxSize]

\* Object3D.updateMatrix composes position and scale: a local point v is at
\* position + scale * v in world space.  The coordinate k of the local point
\* with doubled coordinate v2, times 2 * scaleDen.
WorldCoord(object, v2, k) == object.position2[k] * object.scaleDen + object.scaleNum * v2

\* Box3.setFromObject(model).getCenter() after processModel, times 2 * scaleDen
WorldCenter(object, box) ==
    [k \in 1..3 |-> WorldCoord(object, box.min[k] + box.max[k], k)]

\* Box3.setFromObject(model).getSize() after processModel, times scaleDen
WorldSize(object, box) ==
    [k \in 1..3 |-> object.scaleNum * (box.max[k] - box.min[k])]

\* Points with coordinates on a small grid
GridPoints == (0..MaxCoord) \X (0..MaxCoord) \X (0..MaxCoord)

\* calculateDistance that takes point1's z for 0
calculateDistanceSkewed(point1, point2) ==
    LET dx == point2[1] - point1[1]
        dy == point2[2] - point1[2]
        dz == point2[3]
    IN  Sqrt(dx * dx + dy * dy + dz * dz)

\* unnamed/part_008 101-109: calculateDistance; Math.sqrt is taken on whole
\* numbers, rounded down
calculateDistance(point1, point2) ==
    LET dx == point2[1] - point1[1]
        dy == point2[2] - point1[2]
        dz == point2[3] - point1[3]
    IN  Sqrt(dx * dx + dy * dy + dz * dz)

\* ModelLoader.tsx 62-70, 97-109: a loaded model is handed to processModel
ProcessModel ==
    /\ pureCall.fn = "processModel"
    /\ pureRet = {}
    /\ pureRet' = {processModel(pureCall.box)}
    /\ UNCHANGED pureCall
    /\ UNCHANGED notPure

\* unnamed/part_008 101-109: a call of calculateDistance
CalculateDistance ==
    /\ pureCall.fn = "calculateDistance"
    /\ pureRet = {}
    /\ pureRet' = {calculateDistance(pureCall.point1, pureCall.point2)}
    /\ UNCHANGED pureCall
    /\ UNCHANGED notPure

\* The calls: processModel with every box, calculateDistance with every pair
\* of points
PureCalls ==
    { [fn |-> "processModel", box |-> box] : box \in ModelBoxes }
        \cup { [fn |-> "calculateDistance", point1 |-> point1, point2 |-> point2] :
                 point1 \in GridPoints, point2 \in GridPoints }

PureInit ==
    /\ pureCall \in PureCalls
    /\ pureRet = {}

PureNext ==
    \/ ProcessModel
    \/ CalculateDistance

----------------------------------------------------------------------------
(* File selection: useFileUpload (useFileUpload.ts 11-154) and FileUpload.tsx *)

\* A batch handed to addFiles / processFiles: how many of its files pass
\* validateFile and how many do not
Batches ==
    { b \in [valid : 0..maxFiles, invalid : 0..1] :
        b.valid + b.invalid >= 1 /\ b.valid + b.invalid <= maxFiles + 1 }

\* useFileUpload.ts 58-87, FileUpload.tsx 55-83: the UploadFile records made for
\* the valid files of a batch; made ids exist so far
NewUploadFiles(made, batch) == [i \in 1..batch.valid |-> made + i]

\* useFileUpload.ts 89-91, FileUpload.tsx 85-89: the error after validation
ValidationError(batch) == IF batch.invalid > 0 THEN {"invalid file"} ELSE {}

\* prev.filter(f => f.id !== fileId)
WithoutFile(list, fileId) == SelectSeq(list, LAMBDA f : f # fileId)

\* useFileUpload.ts 47-99: addFiles(newFiles)
AddFiles(batch) ==
    /\ filesMade + batch.valid <= MaxFileIds
    /\ IF ufSeen + batch.valid + batch.invalid > maxFiles
       THEN /\ ufError' = {"too many files"}
            /\ UNCHANGED <<ufFiles, filesMade>>
       ELSE /\ ufError' = ValidationError(batch)
            /\ ufFiles' = ufFiles \o NewUploadFiles(filesMade, batch)
            /\ filesMade' = filesMade + batch.valid
    /\ UNCHANGED <<ufSeen, fuFiles, fuSeen, fuError>>
    /\ UNCHANGED notFiles

\* useFileUpload.ts 101-103: removeFile(fileId)
UfRemoveFile(fileId) ==
    /\ ufFiles' = WithoutFile(ufFiles, fileId)
    /\ UNCHANGED <<ufSeen, ufError, fuFiles, fuSeen, fuError, filesMade>>
    /\ UNCHANGED notFiles

\* useFileUpload.ts 105-108: clearFiles
ClearFiles ==
    /\ ufFiles' = << >>
    /\ ufError' = {}
    /\ UNCHANGED <<ufSeen, fuFiles, fuSeen, fuError, filesMade>>
    /\ UNCHANGED notFiles

\* useFileUpload.ts 47, 99: the component using the hook renders again and
\* addFiles is made anew for the new files.length
UfRender ==
    /\ ufSeen # Len(ufFiles)
    /\ ufSeen' = Len(ufFiles)
    /\ UNCHANGED <<ufFiles, ufError, fuFiles, fuSeen, fuError, filesMade>>
    /\ UNCHANGED notFiles

\* FileUpload.tsx 45-95: processFiles(fileList)
ProcessFiles(batch) ==
    /\ filesMade + batch.valid <= MaxFileIds
    /\ IF Len(fuSeen) + batch.valid + batch.invalid > maxFiles
       THEN /\ fuError' = {"too many files"}
            /\ UNCHANGED <<fuFiles, filesMade>>
       ELSE /\ fuError' = ValidationError(batch)
            /\ fuFiles' = (IF batch.valid > 0
                             THEN fuSeen \o NewUploadFiles(filesMade, batch)
                             ELSE fuFiles)
            /\ filesMade' = filesMade + batch.valid
    /\ UNCHANGED <<ufFiles, ufSeen, ufError, fuSeen>>
    /\ UNCHANGED notFiles

\* FileUpload.tsx 129-140: removeFile(fileId)
FuRemoveFile(fileId) ==
    /\ fuFiles' = WithoutFile(fuSeen, fileId)
    /\ UNCHANGED <<ufFiles, ufSeen, ufError, fuSeen, fuError, filesMade>>
    /\ UNCHANGED notFiles

\* FileUpload.tsx 142-153: clearAll
ClearAll ==
    /\ fuFiles' = << >>
    /\ fuError' = {}
    /\ UNCHANGED <<ufFiles, ufSeen, ufError, fuSeen, filesMade>>
    /\ UNCHANGED notFiles

\* FileUpload.tsx 24, 95, 140: FileUpload renders again and its callbacks are
\* made anew for the new files
FuRender ==
    /\ fuSeen # fuFiles
    /\ fuSeen' = fuFiles
    /\ UNCHANGED <<ufFiles, ufSeen, ufError, fuFiles, fuError, filesMade>>
    /\ UNCHANGED notFiles

\* useFileUpload.ts 18-20, FileUpload.tsx 24-26
FileInit ==
    /\ ufFiles = << >>
    /\ ufSeen = 0
    /\ ufError = {}
    /\ fuFiles = << >>
    /\ fuSeen = << >>
    /\ fuError = {}
    /\ filesMade = 0

FileNext ==
    \/ \E batch \in Batches : AddFiles(batch)
    \/ \E fileId \in 1..MaxFileIds : UfRemoveFile(fileId)
    \/ ClearFiles
    \/ UfRender
    \/ \E batch \in Batches : ProcessFiles(batch)
    \/ \E fileId \in 1..MaxFileIds : FuRemoveFile(fileId)
    \/ ClearAll
    \/ FuRender

----------------------------------------------------------------------------
(* retry: unnamed/part_008 257-278                                           *)

\* What fn can throw: Error objects and a value that is not an Error
Thrown ==
    { [isError |-> TRUE, text |-> "a"], [isError |-> TRUE, text |-> "b"],
      [isError |-> FALSE, text |-> "b"] }

\* What fn can resolve with
Resolved == {"x", "y"}

\* lastError taken as the thrown value itself
KeepThrown(thrown) == thrown

\* unnamed/part_008 268: error instanceof Error ? error : new Error(String(error))
ToError(thrown) ==
    IF thrown.isError THEN thrown ELSE [isError |-> TRUE, text |-> thrown.text]

\* unnamed/part_008 264-265: the loop test, then return await fn() or the
\* throw lastError! after the loop (277), which rejects with what lastError holds
EnterAttempt(n, maxAttempts, last) ==
    IF n <= maxAttempts
    THEN /\ retryPc' = "call"
         /\ retryOut' = {}
    ELSE /\ retryPc' = "rejected"
         /\ retryOut' = {[kind |-> "rejected", error |-> last]}

\* unnamed/part_008 257-265: retry(fn, maxAttempts, delayMs) is called
Retry(maxAttempts, delayMs) ==
    /\ retryPc = "idle"
    /\ retryArgs' = [maxAttempts |-> maxAttempts, delayMs |-> delayMs]
    /\ attempt' = 1
    /\ EnterAttempt(1, maxAttempts, lastError)
    /\ UNCHANGED <<fnLog, lastError, sleep>>
    /\ UNCHANGED notRetry

\* unnamed/part_008 265-266: fn's promise resolves and retry returns its value
FnResolves(value) ==
    /\ retryPc = "call"
    /\ fnLog' = Append(fnLog, [ok |-> TRUE, value |-> value])
    /\ retryPc' = "returned"
    /\ retryOut' = {[kind |-> "returned", value |-> value]}
    /\ UNCHANGED <<retryArgs, attempt, lastError, sleep>>
    /\ UNCHANGED notRetry

\* unnamed/part_008 267-275: fn's promise rejects
FnRejects(thrown) ==
    /\ retryPc = "call"
    /\ fnLog' = Append(fnLog, [ok |-> FALSE, value |-> thrown])
    /\ lastError' = {ToError(thrown)}
    /\ IF attempt = retryArgs.maxAttempts
       THEN /\ retryPc' = "rejected"
            /\ retryOut' = {[kind |-> "rejected", error |-> {ToError(thrown)}]}
            /\ UNCHANGED sleep
       ELSE /\ retryPc' = "delay"
            /\ sleep' = retryArgs.delayMs * attempt
            /\ UNCHANGED retryOut
    /\ UNCHANGED <<retryArgs, attempt>>
    /\ UNCHANGED notRetry

\* unnamed/part_008 252-254, 274, 264: the delay is over, attempt++ and the loop test
DelayOver ==
    /\ retryPc = "delay"
    /\ attempt' = attempt + 1
    /\ EnterAttempt(attempt + 1, retryArgs.maxAttempts, lastError)
    /\ sleep' = 0
    /\ UNCHANGED <<retryArgs, fnLog, lastError>>
    /\ UNCHANGED notRetry

\* Before retry is called
RetryInit ==
    /\ retryArgs = [maxAttempts |-> 0, delayMs |-> 0]
    /\ attempt = 0
    /\ retryPc = "idle"
    /\ fnLog = << >>
    /\ lastError = {}
    /\ retryOut = {}
    /\ sleep = 0

RetryNext ==
    \/ \E maxAttempts \in 0..MaxAttempts, delayMs \in {0, 1000} : Retry(maxAttempts, delayMs)
    \/ \E value \in Resolved : FnResolves(value)
    \/ \E thrown \in Thrown : FnRejects(thrown)
    \/ DelayOver

----------------------------------------------------------------------------
(* Properties *)

\* The status responses the properties name
Processing10 == [status |-> "processing", progress |-> 10, message |-> "step 1", result |-> {}]
Processing60 == [status |-> "processing", progress |-> 60, message |-> "step 2", result |-> {}]
CompletedWith(tid) ==
    [status |-> "completed", progress |-> 100, message |-> "done", result |-> {ResultOf(tid)}]
FailedResponse ==
    [status |-> "failed", progress |-> 60, message |-> "backend failed", result |-> {}]

\* Poll loops of App that have a request in flight or a timer pending
ActiveLoops == { l \in DOMAIN loops : loops[l].pc \in {"request", "timer"} }

\* Timers of the hook that still fire for task id
ActiveIntervals(ivs, id) == { i \in DOMAIN ivs : ivs[i].taskId = id /\ ivs[i].active }

\* A step of App in which loop l sends a status request
AppRequestIssued(l) ==
    /\ l \in DOMAIN loops'
    /\ loops'[l].pc = "request"
    /\ (l \in DOMAIN loops => loops[l].pc # "request")

\* App, for the task loop l polls while it is the current task: processing(10) and
\* processing(60) leave it processing and polling; completed(R) makes it completed,
\* exposes R and ends the loop for good.
C1_AppStep ==
    \A l \in DOMAIN loops :
        LET tid == loops[l].taskId IN
        /\ \A r \in {Processing10, Processing60} :
              PollResponse(l, r) /\ (\E t \in currentTask : t.id = tid)
              => /\ \A t \in currentTask' : t.status = "processing" /\ t.progress = r.progress
                 /\ loops'[l].pc = "timer"
        /\ PollResponse(l, CompletedWith(tid)) /\ (\E t \in currentTask : t.id = tid)
              => /\ \A t \in currentTask' : t.status = "completed"
                 /\ result' = {ResultOf(tid)}
                 /\ loops'[l].pc = "stopped"
        /\ loops[l].pc = "stopped" => loops'[l].pc = "stopped"

\* The hook, for task id: the same responses set the task's status, and after
\* completed(R) the task carries R and no timer for id is left.
C1_HookStep ==
    \A id \in TaskIds :
        /\ \A r \in {Processing10, Processing60} :
              HookPollResponse(id, r) /\ mounted
              => \A i \in DOMAIN tasks' : tasks'[i].id = id => tasks'[i].status = "processing"
        /\ HookPollResponse(id, CompletedWith(id)) /\ mounted
              => /\ \A i \in DOMAIN tasks' :
                       tasks'[i].id = id => /\ tasks'[i].status = "completed"
                                            /\ tasks'[i].result = {ResultOf(id)}
                 /\ ActiveIntervals(intervals', id) = {}

\* C1: the responses processing(10), processing(60), completed(result=R) move the
\* polled task to processing and then to completed once; after the completed
\* response no further status request is scheduled or issued for the task, and R
\* is exposed as the result.
C1_PollingStopsAfterCompleted == [][C1_AppStep /\ C1_HookStep]_vars

\* A step of App that handles the outcome of a status request
AppPollOutcome == \E l \in DOMAIN loops :
                     \/ PollError(l)
                     \/ \E r \in StatusResponses(loops[l].taskId) : PollResponse(l, r)

\* A step of the hook that handles the outcome of a status request
HookPollOutcome == \E id \in TaskIds :
                      \/ HookPollError(id)
                      \/ \E r \in StatusResponses(id) : HookPollResponse(id, r)

\* App after restart (currentTask is null again while poll loops exist): no loop
\* sends a request and no poll outcome changes currentTask, result or activeTab.
C2_AppStep ==
    currentTask = {} =>
        /\ \A l \in DOMAIN loops' : ~AppRequestIssued(l)
        /\ AppPollOutcome => UNCHANGED <<currentTask, result, activeTab>>

\* The hook after unmount: no timer sends a request and no poll outcome changes
\* tasks or currentTask.
C2_HookStep ==
    ~mounted =>
        /\ \A i \in DOMAIN intervals : ~Tick(i)
        /\ HookPollOutcome => UNCHANGED <<tasks, hookTask>>

\* C2: after the controller is torn down or polling is cancelled (App.restart,
\* stopPolling, unmount) no further poll request is issued and no poll response
\* that arrives afterwards changes currentTask, tasks, result or activeTab.
C2_NoPollingAfterTeardown == [][C2_AppStep /\ C2_HookStep]_vars

\* C3: a transport error on one poll does not move the task to failed; the
\* controller polls again at the next interval (and gives up only after several
\* consecutive errors). In App every error is the first of its loop, since the
\* loop ends with it.
C3_TransportErrorIsTransient ==
    [][ /\ \A l \in DOMAIN loops :
              PollError(l) => /\ currentTask' = currentTask
                              /\ loops'[l].pc = "timer"
        /\ \A id \in TaskIds :
              HookPollError(id) => /\ tasks' = tasks
                                   /\ hookTask' = hookTask ]_vars

\* C4: when load B starts before load A resolved, A's result is discarded in
\* whatever order they resolve: a load that is no longer the latest changes
\* neither model, loading, error nor the parent's onLoad flag, so the model
\* held at the end is B's.
C4_SupersededLoadDiscarded ==
    [][ \A i \in DOMAIN loads :
            (i < Len(loads) /\ (LoadOk(i) \/ LoadFail(i)))
            => UNCHANGED <<model, loading, loadError, isModelLoaded>> ]_vars

\* C5: at most one of the measurement and annotation tools is active at a time,
\* and while the annotation tool is active a click delivers nothing to the
\* measurement tool.
C5_OneActiveTool ==
    [][ /\ ~(showMeasurement' /\ showAnnotation')
        /\ ~(mtActive' /\ atActive')
        /\ (atActive /\ MtHandleClick) => UNCHANGED <<currentPoints, emitted>> ]_vars

\* C6: at most one poll loop (a pending timer or a status request in flight) is
\* active in a session, in App and in the hook.
C6_AtMostOnePollLoop ==
    /\ Cardinality(ActiveLoops) <= 1
    /\ Cardinality({ i \in DOMAIN intervals : intervals[i].active }) <= 1

\* C7: the response to a status request for a task that is no longer the current
\* one is discarded: it changes neither the current task nor the result.
C7_StaleResponseDiscarded ==
    [][ /\ \A l \in DOMAIN loops :
              (currentTask # {}
               /\ (\A t \in currentTask : t.id # loops[l].taskId)
               /\ \E r \in StatusResponses(loops[l].taskId) : PollResponse(l, r))
              => UNCHANGED <<currentTask, result>>
        /\ \A id \in TaskIds :
              ((\A t \in hookTask : t.id # id)
               /\ \E r \in StatusResponses(id) : HookPollResponse(id, r))
              => /\ hookTask' = hookTask
                 /\ \A i \in DOMAIN tasks : tasks[i].id # id => tasks'[i] = tasks[i] ]_vars

\* C8: once a task is completed or failed, no later poll response or poll error
\* changes its status, progress, message or result.
C8_TerminalTaskNotMutated ==
    [][ /\ (AppPollOutcome /\ \E t \in currentTask : IsTerminal(t.status))
              => UNCHANGED <<currentTask, result>>
        /\ HookPollOutcome
              => \A i \in DOMAIN tasks :
                    IsTerminal(tasks[i].status) => tasks'[i] = tasks[i] ]_vars

\* C9: when a status response reports failed, polling for the task stops (no
\* timer or request for it is left) and the task is failed with the response's
\* message.
C9_FailedStopsPolling ==
    [][ /\ \A l \in DOMAIN loops :
              (PollResponse(l, FailedResponse) /\ \E t \in currentTask : t.id = loops[l].taskId)
              => /\ loops'[l].pc = "stopped"
                 /\ \A t \in currentTask' :
                       t.status = "failed" /\ t.message = FailedResponse.message
        /\ \A id \in TaskIds :
              (HookPollResponse(id, FailedResponse) /\ mounted)
              => /\ ActiveIntervals(intervals', id) = {}
                 /\ \A i \in DOMAIN tasks' :
                       tasks'[i].id = id => /\ tasks'[i].status = "failed"
                                            /\ tasks'[i].message = FailedResponse.message ]_vars

HasKindArity(m) ==
    CASE m.type = "distance" -> Len(m.points) = 2
      [] m.type = "angle"    -> Len(m.points) = 3
      [] m.type = "area"     -> Len(m.points) >= 3
      [] OTHER               -> TRUE

\* C11: every Measurement that was emitted by the 3D tool or is in the panel's
\* measurement list has the number of points of its kind; one with fewer points
\* is never emitted or listed.
C11_MeasurementsHaveArity ==
    /\ \A i \in DOMAIN emitted : HasKindArity(emitted[i])
    /\ \A i \in DOMAIN pmMeasurements : HasKindArity(pmMeasurements[i])

C13_AnnotationOnlyByPick ==
    [][ /\ (AtHandleClick /\ atActive)
           => /\ \A p \in atHovered :
                    annotations' = Append(annotations, NewAnnotation(p, Len(annotations)))
              /\ atHovered = {} => annotations' = annotations
              /\ atActive'
        /\ annotations' # annotations => AtHandleClick /\ atActive /\ atHovered # {}
        /\ Len(paAnnotations') <= Len(paAnnotations) ]_vars

\* The entries of a list whose id is not id
OtherEntries(list, id) == { list[i] : i \in { j \in DOMAIN list : list[j].id # id } }

\* Whether the entries of list appear in before, in the same order
KeepsOrder(list, before) ==
    \A i, j \in DOMAIN list :
        i < j => \E k, l \in DOMAIN before :
                    k < l /\ before[k] = list[i] /\ before[l] = list[j]

\* C14: deleteAnnotation(id) with an id that is not in the list leaves the list
\* unchanged; deleting the same id again gives the same list as deleting it
\* once; annotations with other ids are neither removed, changed nor reordered,
\* and no annotation with the deleted id is left.
C14_DeleteAnnotationById ==
    [][ \A id \in PanelIds :
            PaDelete(id) =>
                /\ (\A i \in DOMAIN paAnnotations : paAnnotations[i].id # id)
                       => paAnnotations' = paAnnotations
                /\ deleteAnnotation(paAnnotations', id) = paAnnotations'
                /\ OtherEntries(paAnnotations', id) = OtherEntries(paAnnotations, id)
                /\ \A i \in DOMAIN paAnnotations' : paAnnotations'[i].id # id
                /\ KeepsOrder(paAnnotations', paAnnotations) ]_vars

\* A delete was called with an id no annotation ever had, on a list that holds
\* an annotation, and the list still holds it
C14_DeletedAbsentId ==
    /\ panelCall = [op |-> "deleteAnnotation", id |-> generateId(2)]
    /\ idsMade = 1
    /\ Len(paAnnotations) = 1

\* Whether after is before with the visible flag of the entries with id flipped
\* and nothing else changed
FlipsOnly(before, after, id) ==
    /\ Len(after) = Len(before)
    /\ \A i \in DOMAIN before :
          after[i] = IF before[i].id = id
                     THEN [before[i] EXCEPT !.visible = ~before[i].visible]
                     ELSE before[i]

\* Whether no entry of list has the id
Absent(list, id) == \A i \in DOMAIN list : list[i].id # id

\* C15 (as stated): visibility toggling is idempotent: applying
\* toggleAnnotationVisibility or toggleMeasurementVisibility twice with the same
\* id leaves the same state as applying it once, and applying it with an id that
\* is not present leaves the list unchanged.
C15_ToggleIdempotent ==
    [][ \A id \in PanelIds :
          /\ PaToggleVisibility(id)
                => /\ toggleAnnotationVisibility(paAnnotations', id) = paAnnotations'
                   /\ Absent(paAnnotations, id) => paAnnotations' = paAnnotations
          /\ PmToggleVisibility(id)
                => /\ toggleMeasurementVisibility(pmMeasurements', id) = pmMeasurements'
                   /\ Absent(pmMeasurements, id) => pmMeasurements' = pmMeasurements ]_vars

\* C15 (amended): visibility toggling is identity-addressed and an involution:
\* it flips the visible flag of the entry with the id and changes nothing else,
\* applying it twice with the same id gives back the list before the first
\* application, and applying it with an id that is not present leaves the list
\* unchanged.
C15_ToggleIsInvolution ==
    [][ \A id \in PanelIds :
          /\ PaToggleVisibility(id)
                => /\ FlipsOnly(paAnnotations, paAnnotations', id)
                   /\ toggleAnnotationVisibility(paAnnotations', id) = paAnnotations
                   /\ Absent(paAnnotations, id) => paAnnotations' = paAnnotations
          /\ PmToggleVisibility(id)
                => /\ FlipsOnly(pmMeasurements, pmMeasurements', id)
                   /\ toggleMeasurementVisibility(pmMeasurements', id) = pmMeasurements
                   /\ Absent(pmMeasurements, id) => pmMeasurements' = pmMeasurements ]_vars

\* toggleAnnotationVisibility was just applied to an annotation of the list,
\* which it hid
C15_ToggledPresentId ==
    /\ panelCall.op = "toggleAnnotationVisibility"
    /\ \E i \in DOMAIN paAnnotations :
          paAnnotations[i].id = panelCall.id /\ ~paAnnotations[i].visible

UnsupportedUrl(url) == FileExtension(url) \notin SupportedExtensions

\* C17: a load whose URL has an extension other than gltf, glb, obj or ply (or
\* no extension) fails with an unsupported-format error before any loader sends
\* a request, and sets no model: the effect run itself ends the load as failed
\* with the error set, and such a load never has a request or a loaded model.
C17_UnsupportedFailsFast ==
    [][ /\ \A url \in Urls :
              (LoadEffect(url) /\ UnsupportedUrl(url))
              => /\ loads' = Append(loads, [url |-> url, pc |-> "failed",
                                            requested |-> FALSE])
                 /\ loadError' # {}
                 /\ ~loading'
                 /\ model' = model
                 /\ isModelLoaded' = isModelLoaded
        /\ \A i \in DOMAIN loads' :
              UnsupportedUrl(loads'[i].url)
              => ~loads'[i].requested /\ loads'[i].pc = "failed" ]_vars

\* The latest load was for a URL without a supported extension and has failed
\* without a request
C17_UnsupportedLoadFailed ==
    /\ loads # << >>
    /\ UnsupportedUrl(loads[Len(loads)].url)
    /\ loads[Len(loads)].pc = "failed"
    /\ ~loads[Len(loads)].requested
    /\ loadError # {}

\* C18: a failed load yields no asset: whenever the most recent load has ended
\* in an error ModelLoader renders nothing, and a model is stored only by a load
\* whose decode and post-processing completed (it is that load's processed model).
C18_FailedLoadRendersNothing ==
    [][ /\ (loads' # << >> /\ loads'[Len(loads')].pc = "failed") => Rendered' = {}
        /\ model' # model
              => \E i \in DOMAIN loads :
                    /\ LoadOk(i)
                    /\ model' = {LoadedModel(loads[i].url)}
                    /\ \A m \in model' : m.processed ]_vars

\* The most recent load has failed while a model of an earlier load is stored
\* and loading is over
C18_FailedWithStoredModel ==
    /\ loads # << >>
    /\ loads[Len(loads)].pc = "failed"
    /\ model # {}
    /\ ~loading

\* Whether a task record is a fresh attempt: pending, progress 0, the restart
\* message and no result descriptor
IsFreshAttempt(t) ==
    /\ t.status = "pending"
    /\ t.progress = 0
    /\ t.message = RestartedTask(t).message
    /\ t.result = {}

\* C19: after restartTask(id) succeeded for an existing task, the task with that
\* id is pending with progress 0, a fresh message and no result descriptor, in
\* the task list and in currentTask, before any new poll response is applied.
C19_RestartResetsTask ==
    [][ \A id \in TaskIds :
            (RestartOk(id) /\ mounted)
            => /\ \A i \in DOMAIN tasks' : tasks'[i].id = id => IsFreshAttempt(tasks'[i])
               /\ \A t \in hookTask' : t.id = id => IsFreshAttempt(t) ]_vars

\* C20: a result descriptor is present only for a completed task: a task of
\* useReconstruction (in tasks or as currentTask) carries a result only when its
\* status is completed, and App's result is non-null only while currentTask
\* exists with status completed.
C20_ResultOnlyWhenCompleted ==
    /\ \A i \in DOMAIN tasks : tasks[i].result # {} => tasks[i].status = "completed"
    /\ \A t \in hookTask : t.result # {} => t.status = "completed"
    /\ result # {} => \E t \in currentTask : t.status = "completed"

\* C21: after any sequence of camera operations (reset, a preset, the fov and
\* speed sliders, fit-to-bounds) the camera's near plane is strictly nearer than
\* its far plane.
C21_NearLessThanFar == sceneCamera.near < sceneCamera.far

\* The sliders, a preset and the auto-fit have all acted on the camera
C21_CameraOperated ==
    /\ cameraCall = "updateCamera"
    /\ sceneCamera.fov = 120
    /\ sceneCamera.speed = 20
    /\ sceneCamera.position = <<3, 3, 3>>
    /\ resultBox # {}

\* C22: after processModel the world-space bounding box of the model has its
\* centre at the origin and its largest dimension is 5, whatever the box of the
\* loaded model was.
C22_CenteredAndScaled ==
    pureCall.fn = "processModel" =>
        \A object \in pureRet :
            /\ \A k \in 1..3 : WorldCenter(object, pureCall.box)[k] = 0
            /\ LET size == WorldSize(object, pureCall.box)
               IN  Max3(size[1], size[2], size[3]) = 5 * object.scaleDen

\* Squared Euclidean distance of two points
SquaredDistance(p, q) ==
    (p[1] - q[1]) * (p[1] - q[1]) + (p[2] - q[2]) * (p[2] - q[2])
        + (p[3] - q[3]) * (p[3] - q[3])

\* C23: fit-to-bounds leaves the camera at a distance of 2 times the largest
\* dimension of the box from the centre of the box, looking at that centre.
C23_FitDistanceIsTwiceMaxDim ==
    [][\A b \in Boxes : SetResult({b}) =>
            /\ threeCamera'.target = BoxCenter(b)
            /\ SquaredDistance(threeCamera'.position, threeCamera'.target)
                   = (2 * BoxMaxDim(b)) * (2 * BoxMaxDim(b))]_vars

StatusRank(status) ==
    CASE status = "pending"    -> 0
      [] status = "processing" -> 1
      [] OTHER                 -> 2

\* C25: whatever the poll responses are, the status of a task only moves
\* forward along pending -> processing -> {completed | failed}: it never goes
\* from processing back to pending and never leaves completed or failed.
C25_StatusOnlyMovesForward ==
    [][\A l \in DOMAIN loops : \A r \in StatusResponses(loops[l].taskId) :
            PollResponse(l, r) =>
                \A t \in currentTask : \A u \in currentTask' :
                    /\ StatusRank(t.status) <= StatusRank(u.status)
                    /\ IsTerminal(t.status) => u.status = t.status]_vars

\* C26: a poll loop of App.pollTaskStatus stops when the backend reports a
\* terminal status (completed or failed), whatever else the response carries,
\* a completed response without a result included: no further poll is scheduled.
C26_TerminalResponseStopsLoop ==
    [][\A l \in DOMAIN loops : \A r \in StatusResponses(loops[l].taskId) :
            (PollResponse(l, r) /\ IsTerminal(r.status)) => loops'[l].pc = "stopped"]_vars

\* C27: when the upload or the start request of startReconstruction fails, the
\* current task is the failed task with the error message, the call is over and
\* has started no poll loop; with no file selected startReconstruction changes
\* nothing.
C27_StartFailureFailsTask ==
    [][ /\ \A k \in DOMAIN starts :
              (UploadFail(k) \/ StartFail(k))
              => /\ \E t \in currentTask' :
                       /\ currentTask' = {t}
                       /\ t.status = "failed"
                       /\ t.message \in {"upload failed", "start failed"}
                 /\ loops' = loops
                 /\ starts'[k].pc = "done"
                 /\ \A l \in DOMAIN loops' : loops'[l].taskId # UploadTaskId(k)
        /\ (StartReconstruction /\ files = 0) => UNCHANGED appVars ]_vars

\* The start request of a call failed after its upload had succeeded, and the
\* current task is the failed one
C27_StartRequestFailed ==
    /\ \E k \in DOMAIN starts : starts[k].pc = "done"
    /\ loops = << >>
    /\ \E t \in currentTask : t.status = "failed" /\ t.message = "start failed"

\* The ids in a list of files
FileIdsOf(list) == { list[i] : i \in DOMAIN list }

\* C28: after any sequence of add, remove and clear calls, two adds before a
\* re-render included, there are never more than maxFiles files and an add
\* loses no file accepted earlier; an add that would exceed maxFiles takes
\* nothing from the batch, sets the error and leaves the list as it was.
C28_FileLimitKept ==
    [][ /\ Len(ufFiles') <= maxFiles
        /\ Len(fuFiles') <= maxFiles
        /\ \A batch \in Batches :
              /\ AddFiles(batch) =>
                    /\ FileIdsOf(ufFiles) \subseteq FileIdsOf(ufFiles')
                    /\ Len(ufFiles) + batch.valid + batch.invalid > maxFiles
                          => ufFiles' = ufFiles /\ ufError' # {}
              /\ ProcessFiles(batch) =>
                    /\ FileIdsOf(fuFiles) \subseteq FileIdsOf(fuFiles')
                    /\ Len(fuFiles) + batch.valid + batch.invalid > maxFiles
                          => fuFiles' = fuFiles /\ fuError' # {} ]_vars

\* C29: in App the active tab is 'view' only while result is non-null and
\* 'process' only while currentTask is non-null, after any sequence of tab
\* clicks, startReconstruction calls, poll responses and restarts.
C29_ActiveTabHasContent ==
    /\ activeTab = "view" => result # {}
    /\ activeTab = "process" => currentTask # {}

\* The view tab was opened by the response of a poll loop that a restart had
\* left running: there is a result and no current task
C29_ViewAfterRestart ==
    /\ activeTab = "view"
    /\ result # {}
    /\ currentTask = {}

\* Number of fn calls made so far, the one being awaited included
FnCalls == Len(fnLog) + (IF retryPc = "call" THEN 1 ELSE 0)

\* fn was called at most maxAttempts times; a returned retry returned the value
\* of its first successful call, which was its last call
RetryCallsAndReturn ==
    /\ FnCalls <= retryArgs.maxAttempts
    /\ retryPc = "returned" =>
          /\ fnLog[Len(fnLog)].ok
          /\ retryOut = {[kind |-> "returned", value |-> fnLog[Len(fnLog)].value]}
          /\ \A i \in 1..(Len(fnLog) - 1) : ~fnLog[i].ok

----------------------------------------------------------------------------
(* Specifications *)

\* Every component starts in its constructed state. A specification runs one
\* component; the options of the others are held at their defaults
\* (autoStart = false, useFileUpload.ts 164), and the arguments of the pure
\* functions are drawn in SpecPure alone.
InitApp ==
    AppInit /\ HookInit /\ LoaderInit /\ ToolsInit /\ PanelInit /\ RetryInit
        /\ FileInit /\ pureCall = [fn |-> "none"] /\ pureRet = {} /\ CameraInit
        /\ ~autoStart /\ onAddGiven

InitHook ==
    AppInit /\ HookInit /\ LoaderInit /\ ToolsInit /\ PanelInit /\ RetryInit
        /\ FileInit /\ pureCall = [fn |-> "none"] /\ pureRet = {} /\ CameraInit
        /\ onAddGiven

InitLoader ==
    AppInit /\ HookInit /\ LoaderInit /\ ToolsInit /\ PanelInit /\ RetryInit
        /\ FileInit /\ pureCall = [fn |-> "none"] /\ pureRet = {} /\ CameraInit
        /\ ~autoStart /\ onAddGiven

InitPanel ==
    AppInit /\ HookInit /\ LoaderInit /\ ToolsInit /\ PanelInit /\ RetryInit
        /\ FileInit /\ pureCall = [fn |-> "none"] /\ pureRet = {} /\ CameraInit
        /\ ~autoStart /\ onAddGiven

InitTools ==
    AppInit /\ HookInit /\ LoaderInit /\ ToolsInit /\ PanelInit /\ RetryInit
        /\ FileInit /\ pureCall = [fn |-> "none"] /\ pureRet = {} /\ CameraInit
        /\ ~autoStart

InitCamera ==
    AppInit /\ HookInit /\ LoaderInit /\ ToolsInit /\ PanelInit /\ RetryInit
        /\ FileInit /\ pureCall = [fn |-> "none"] /\ pureRet = {} /\ CameraInit
        /\ ~autoStart /\ onAddGiven

InitPure ==
    AppInit /\ HookInit /\ LoaderInit /\ ToolsInit /\ PanelInit /\ RetryInit
        /\ FileInit /\ PureInit /\ CameraInit /\ ~autoStart /\ onAddGiven

InitFiles ==
    AppInit /\ HookInit /\ LoaderInit /\ ToolsInit /\ PanelInit /\ RetryInit
        /\ FileInit /\ pureCall = [fn |-> "none"] /\ pureRet = {} /\ CameraInit
        /\ ~autoStart /\ onAddGiven

InitRetry ==
    AppInit /\ HookInit /\ LoaderInit /\ ToolsInit /\ PanelInit /\ RetryInit
        /\ FileInit /\ pureCall = [fn |-> "none"] /\ pureRet = {} /\ CameraInit
        /\ ~autoStart /\ onAddGiven

SpecApp == InitApp /\ [][AppNext]_vars

SpecHook == InitHook /\ [][HookNext]_vars

SpecLoader == InitLoader /\ [][LoaderNext]_vars

SpecTools == InitTools /\ [][ToolsNext]_vars

SpecPanel == InitPanel /\ [][PanelNext]_vars

SpecCamera == InitCamera /\ [][CameraNext]_vars

SpecPure == InitPure /\ [][PureNext]_vars

SpecFiles == InitFiles /\ [][FileNext]_vars

SpecRetry == InitRetry /\ [][RetryNext]_vars

====
